---- MODULE Spec2Model ----
(***************************************************************************)
(* Vehicle resale-price service (main.py, schema.py) and its Streamlit     *)
(* dashboard (streamlit_app.py).                                           *)
(*                                                                         *)
(* Prices are integers in hundredths of a lakh (10.5 lakhs = 1050).        *)
(* The scoring module (model.py: load_artifacts, predict_price) is not     *)
(* part of the sources; it is modelled from the specification.             *)
(***************************************************************************)
EXTENDS Integers, Sequences, FiniteSets, TLC

\* ---------------------------------------------------------------- bounds
MaxConns == 2       \* HTTP exchanges the service holds at the same time
MaxClock == 2       \* seconds of wall clock, one per predict run, the session observes

\* datetime.now().year
CurrentYear == 2024

Conns == 1..MaxConns

\* ------------------------------------------------------------- schema.py
FuelType == {"Petrol", "Diesel", "CNG"}

SellerType == {"Dealer", "Individual"}

TransmissionType == {"Manual", "Automatic"}

Owner_ge == 0

Owner_le == 3

\* Owner accepted only below the upper bound.
Owner_ok_exclusive(o) == o >= Owner_ge /\ o < Owner_le

\* Field(..., ge=0, le=3)
Owner_ok(o) == o >= Owner_ge /\ o <= Owner_le

\* Fuel_Type declared as a plain str: any label is accepted.
Car_Features_errors_fuel_str(b) ==
       (IF b.Seller_Type \in SellerType THEN {} ELSE {"Seller_Type"})
  \cup (IF b.Transmission \in TransmissionType THEN {} ELSE {"Transmission"})
  \cup (IF Owner_ok(b.Owner) THEN {} ELSE {"Owner"})

\* The fields of a well-typed JSON body that Car_Features rejects.
Car_Features_errors(b) ==
       (IF b.Fuel_Type \in FuelType THEN {} ELSE {"Fuel_Type"})
  \cup (IF b.Seller_Type \in SellerType THEN {} ELSE {"Seller_Type"})
  \cup (IF b.Transmission \in TransmissionType THEN {} ELSE {"Transmission"})
  \cup (IF Owner_ok(b.Owner) THEN {} ELSE {"Owner"})

\* ------------------------------------------------------ request bodies
\* The example payload of schema.py (Field(..., example=...)).
Example ==
  [Car_Name |-> "Defender", Year |-> 2020, Present_Price |-> 1050,
   Kms_Driven |-> 27000, Fuel_Type |-> "Petrol", Seller_Type |-> "Dealer",
   Transmission |-> "Manual", Owner |-> 1]

NoBody ==
  [Car_Name |-> "", Year |-> 0, Present_Price |-> 0, Kms_Driven |-> 0,
   Fuel_Type |-> "", Seller_Type |-> "", Transmission |-> "", Owner |-> 0]

\* Bodies an arbitrary HTTP caller posts: the example payload, two other
\* payloads inside the schema, and the example payload with one field (or
\* Fuel_Type and Owner together) outside the schema or the data model.
RawBodies ==
  {Example,
   [Example EXCEPT !.Fuel_Type = "Diesel", !.Seller_Type = "Individual",
                   !.Transmission = "Automatic", !.Owner = 3],
   [Example EXCEPT !.Fuel_Type = "CNG", !.Owner = 0],
   [Example EXCEPT !.Owner = -1],
   [Example EXCEPT !.Owner = 4],
   [Example EXCEPT !.Fuel_Type = "Hybrid"],
   [Example EXCEPT !.Fuel_Type = "Hybrid", !.Owner = 4],
   [Example EXCEPT !.Seller_Type = "Broker"],
   [Example EXCEPT !.Transmission = "CVT"],
   [Example EXCEPT !.Kms_Driven = -1000]}

\* ------------------------------------------------------------- model.py
NoArtifact == [loaded |-> FALSE, rate |-> 0, ownerStep |-> 0, dieselAdd |-> 0]

\* What the persisted location may hold when the process starts.
Artifacts ==
  {[loaded |-> TRUE, rate |-> 80, ownerStep |-> 25, dieselAdd |-> 40],
   [loaded |-> TRUE, rate |-> 60, ownerStep |-> 40, dieselAdd |-> 0]}

\* score(features) -> number: a function of the artifact and the features
\* (enumeration values as their text labels) only.
predict_price(a, f) ==
    (a.rate * f.Present_Price) \div 100
  - a.ownerStep * f.Owner
  - f.Kms_Driven \div 1000
  + 10 * (f.Year - 2000)
  + (IF f.Fuel_Type = "Diesel" THEN a.dieselAdd ELSE 0)
  + (IF f.Seller_Type = "Individual" THEN -15 ELSE 0)
  + (IF f.Transmission = "Automatic" THEN 30 ELSE 0)

\* ------------------------------------------------------------- responses
NoResponse == [status |-> 0, kind |-> "none", price |-> 0, detail |-> {}]

\* JSONResponse(status_code=200, content={"message": "this is test route"})
TestResponse == [status |-> 200, kind |-> "message", price |-> 0, detail |-> {}]

\* PredictionResponse(prediction_price=price)
PredictionResponse(price) ==
  [status |-> 200, kind |-> "prediction", price |-> price, detail |-> {}]

\* FastAPI's answer to a body that Car_Features rejects: 422 with the
\* offending fields.
UnprocessableResponse(errs) ==
  [status |-> 422, kind |-> "detail", price |-> 0, detail |-> errs]

\* FastAPI's answer to an exception raised inside a handler.
ServerErrorResponse == [status |-> 500, kind |-> "error", price |-> 0, detail |-> {}]

FreeConn ==
  [pc |-> "free", method |-> "none", body |-> NoBody, resp |-> NoResponse,
   scored |-> FALSE, concurrent |-> FALSE]

\* ----------------------------------------------------------------- state
VARIABLES
  phase,               \* service process: "starting", "serving", "down"
  artifact,            \* model.py's process-wide scoring artifact
  loads,               \* number of load_artifacts() calls so far
  conn,                \* HTTP exchanges: request, handler position, response
  state,               \* dashboard request lifecycle
  failure,             \* the Failed variant of the last submission
  api_status,          \* result of check_api_status() in the current run
  payload,             \* payload of the current submission
  cconn,               \* exchange the dashboard is blocked on (0: none)
  posts,               \* POST /predict calls issued by the current submission
  shown,               \* st.error messages of the current run
  prediction_history,  \* st.session_state.prediction_history
  last_prediction,     \* st.session_state.last_prediction (<<>>: None)
  now,                 \* wall clock, seconds
  button,              \* the button that triggered the current run
  probe,               \* outcome of GET / in the current run
  calc                 \* a derived-metric evaluation: its inputs and results

service == <<phase, artifact, loads, conn>>

client == <<state, failure, api_status, payload, cconn, posts, shown,
            prediction_history, last_prediction, now, button, probe, calc>>

vars == <<phase, artifact, loads, conn, state, failure, api_status, payload,
          cconn, posts, shown, prediction_history, last_prediction, now,
          button, probe, calc>>

\* --------------------------------------------------------------- main.py
\* @app.on_event("startup"): load_artifacts() fills the process-wide state,
\* leaves it unavailable, or raises (the server then never serves).
startup_event ==
  /\ phase = "starting"
  /\ loads' = loads + 1
  /\ \/ /\ artifact' \in Artifacts \cup {NoArtifact}
        /\ phase' = "serving"
     \/ /\ artifact' = NoArtifact
        /\ phase' = "down"
  /\ UNCHANGED <<conn, client>>

\* @app.get("/")
test(k) ==
  /\ conn[k].pc = "sent"
  /\ conn[k].method = "GET"
  /\ conn' = [conn EXCEPT ![k].pc = "done", ![k].resp = TestResponse]
  /\ UNCHANGED <<phase, artifact, loads, client>>

\* FastAPI parses the body of POST /predict into `features: Car_Features`
\* before the handler runs; a rejected body is answered 422.
Car_Features_validate(k) ==
  /\ conn[k].pc = "sent"
  /\ conn[k].method = "POST"
  /\ LET errs == Car_Features_errors(conn[k].body) IN
       conn' = IF errs = {}
                 THEN [conn EXCEPT ![k].pc = "handler"]
                 ELSE [conn EXCEPT ![k].pc = "done",
                                   ![k].resp = UnprocessableResponse(errs)]
  /\ UNCHANGED <<phase, artifact, loads, client>>

\* Other exchanges the service is working on while exchange k is handled.
InFlightBeside(k) == {j \in Conns \ {k} : conn[j].pc \in {"sent", "handler"}}

\* predict with a fallback price of 0 when scoring raises.
predict_fallback(k) ==
  /\ conn[k].pc = "handler"
  /\ conn' = [conn EXCEPT
       ![k].pc = "done",
       ![k].scored = TRUE,
       ![k].concurrent = InFlightBeside(k) # {},
       ![k].resp = IF artifact.loaded
                     THEN PredictionResponse(predict_price(artifact, conn[k].body))
                     ELSE PredictionResponse(0)]
  /\ UNCHANGED <<phase, artifact, loads, client>>

\* predict that calls load_artifacts() on every request.
predict_reload(k) ==
  /\ conn[k].pc = "handler"
  /\ \E a \in Artifacts :
       /\ artifact' = a
       /\ conn' = [conn EXCEPT
            ![k].pc = "done",
            ![k].scored = TRUE,
            ![k].concurrent = InFlightBeside(k) # {},
            ![k].resp = PredictionResponse(predict_price(a, conn[k].body))]
  /\ loads' = loads + 1
  /\ UNCHANGED <<phase, client>>

\* predict whose price drifts with the number of answers the service holds.
predict_drift(k) ==
  /\ conn[k].pc = "handler"
  /\ conn' = [conn EXCEPT
       ![k].pc = "done",
       ![k].scored = TRUE,
       ![k].concurrent = InFlightBeside(k) # {},
       ![k].resp = IF artifact.loaded
                     THEN PredictionResponse(
                            predict_price(artifact, conn[k].body)
                            + Cardinality({j \in Conns : conn[j].pc = "done"}))
                     ELSE ServerErrorResponse]
  /\ UNCHANGED <<phase, artifact, loads, client>>

\* predict that reads the features from a buffer shared by all requests.
predict_shared(k) ==
  /\ conn[k].pc = "handler"
  /\ \E j \in Conns :
       /\ conn[j].pc = "handler"
       /\ conn' = [conn EXCEPT
            ![k].pc = "done",
            ![k].scored = TRUE,
            ![k].concurrent = InFlightBeside(k) # {},
            ![k].resp = IF artifact.loaded
                          THEN PredictionResponse(predict_price(artifact, conn[j].body))
                          ELSE ServerErrorResponse]
  /\ UNCHANGED <<phase, artifact, loads, client>>

\* @app.post("/predict"): price = predict_price(features.model_dump());
\* predict_price raises when the artifact is unavailable.
predict(k) ==
  /\ conn[k].pc = "handler"
  /\ conn' = [conn EXCEPT
       ![k].pc = "done",
       ![k].scored = TRUE,
       ![k].concurrent = InFlightBeside(k) # {},
       ![k].resp = IF artifact.loaded
                     THEN PredictionResponse(predict_price(artifact, conn[k].body))
                     ELSE ServerErrorResponse]
  /\ UNCHANGED <<phase, artifact, loads, client>>

\* ------------------------------------------------------- HTTP callers
\* Any HTTP caller posts a body to /predict on an exchange not in use.
Post(k, b) ==
  /\ phase = "serving"
  /\ conn[k].pc \in {"free", "done"}
  /\ cconn # k
  /\ conn' = [conn EXCEPT ![k] = [FreeConn EXCEPT !.pc = "sent",
                                                  !.method = "POST",
                                                  !.body = b]]
  /\ UNCHANGED <<phase, artifact, loads, client>>

Get(k) ==
  /\ phase = "serving"
  /\ conn[k].pc \in {"free", "done"}
  /\ cconn # k
  /\ conn' = [conn EXCEPT ![k] = [FreeConn EXCEPT !.pc = "sent",
                                                  !.method = "GET"]]
  /\ UNCHANGED <<phase, artifact, loads, client>>

\* ------------------------------------------------------ streamlit_app.py
\* Outcomes of requests.get / requests.post that are not an HTTP status.
TimedOut == 0

Refused == -1

\* What GET / on API_URL yields: the service answers 200 or the call times
\* out; with no service on the port the connection is refused, or some
\* other program answers 404.
ProbeOutcomes == IF phase = "serving" THEN {200, TimedOut} ELSE {Refused, 404}

\* check_api_status counting any HTTP answer as healthy.
check_api_status_any(outcome) == outcome > 0

\* check_api_status(): response.status_code == 200, False on any exception.
check_api_status(outcome) == outcome = 200

\* Values for the form widgets in the runs considered; the last three lie
\* outside what the widgets offer.
FormSamples ==
  {[car_name |-> "Swift", year |-> 2020, owner |-> 0, present_price |-> 1050,
    kms_driven |-> 27000, fuel_type |-> "Petrol", transmission |-> "Manual",
    seller_type |-> "Dealer"],
   [car_name |-> "Nexon", year |-> CurrentYear, owner |-> 3, present_price |-> 50,
    kms_driven |-> 0, fuel_type |-> "Diesel", transmission |-> "Automatic",
    seller_type |-> "Individual"],
   [car_name |-> "", year |-> 2020, owner |-> 0, present_price |-> 1050,
    kms_driven |-> 27000, fuel_type |-> "Petrol", transmission |-> "Manual",
    seller_type |-> "Dealer"],
   [car_name |-> "Swift", year |-> 2020, owner |-> 4, present_price |-> 1050,
    kms_driven |-> 27000, fuel_type |-> "Petrol", transmission |-> "Manual",
    seller_type |-> "Dealer"],
   [car_name |-> "Swift", year |-> 2020, owner |-> 0, present_price |-> 0,
    kms_driven |-> 27000, fuel_type |-> "Petrol", transmission |-> "Manual",
    seller_type |-> "Dealer"],
   [car_name |-> "Swift", year |-> CurrentYear + 1, owner |-> 0,
    present_price |-> 1050, kms_driven |-> 27000, fuel_type |-> "Hybrid",
    transmission |-> "Manual", seller_type |-> "Dealer"]}

\* The ownership selectbox offering a fifth option.
Widget_ok_owner_five(f) ==
  /\ f.year >= 1990 /\ f.year <= CurrentYear
  /\ f.owner \in {0, 1, 2, 3, 4}
  /\ f.present_price >= 50 /\ f.present_price <= 15000
  /\ f.present_price % 50 = 0
  /\ f.kms_driven >= 0 /\ f.kms_driven <= 500000
  /\ f.kms_driven % 1000 = 0
  /\ f.fuel_type \in {"Petrol", "Diesel", "CNG"}
  /\ f.transmission \in {"Manual", "Automatic"}
  /\ f.seller_type \in {"Dealer", "Individual"}

\* The price input with min_value=0.0.
Widget_ok_price_zero(f) ==
  /\ f.year >= 1990 /\ f.year <= CurrentYear
  /\ f.owner \in {0, 1, 2, 3}
  /\ f.present_price >= 0 /\ f.present_price <= 15000
  /\ f.present_price % 50 = 0
  /\ f.kms_driven >= 0 /\ f.kms_driven <= 500000
  /\ f.kms_driven % 1000 = 0
  /\ f.fuel_type \in {"Petrol", "Diesel", "CNG"}
  /\ f.transmission \in {"Manual", "Automatic"}
  /\ f.seller_type \in {"Dealer", "Individual"}

\* min_value, max_value, step and options of the form widgets.
Widget_ok(f) ==
  /\ f.year >= 1990 /\ f.year <= CurrentYear
  /\ f.owner \in {0, 1, 2, 3}
  /\ f.present_price >= 50 /\ f.present_price <= 15000
  /\ f.present_price % 50 = 0
  /\ f.kms_driven >= 0 /\ f.kms_driven <= 500000
  /\ f.kms_driven % 1000 = 0
  /\ f.fuel_type \in {"Petrol", "Diesel", "CNG"}
  /\ f.transmission \in {"Manual", "Automatic"}
  /\ f.seller_type \in {"Dealer", "Individual"}

FormInputs == {f \in FormSamples : Widget_ok(f)}

\* payload = {"Car_Name": car_name, ...}
Payload(f) ==
  [Car_Name |-> f.car_name, Year |-> f.year, Present_Price |-> f.present_price,
   Kms_Driven |-> f.kms_driven, Fuel_Type |-> f.fuel_type,
   Seller_Type |-> f.seller_type, Transmission |-> f.transmission,
   Owner |-> f.owner]

\* A record that stores the market price as the prediction.
prediction_record_swapped(p, predicted_price, t) ==
  [car_name |-> p.Car_Name, year |-> p.Year,
   predicted_price |-> p.Present_Price, present_price |-> predicted_price,
   kms_driven |-> p.Kms_Driven, fuel_type |-> p.Fuel_Type,
   transmission |-> p.Transmission, timestamp |-> t]

\* st.session_state.last_prediction = {...}; the timestamp is the clock
\* formatted to the second.
prediction_record(p, predicted_price, t) ==
  [car_name |-> p.Car_Name, year |-> p.Year,
   predicted_price |-> predicted_price, present_price |-> p.Present_Price,
   kms_driven |-> p.Kms_Driven, fuel_type |-> p.Fuel_Type,
   transmission |-> p.Transmission, timestamp |-> t]

\* A script run triggered by a widget change: only the health probe runs.
main_rerun ==
  /\ state = "Idle"
  /\ \E o \in ProbeOutcomes :
       /\ probe' = o
       /\ api_status' = check_api_status(o)
  /\ button' = "none"
  /\ shown' = {}
  /\ posts' = 0
  /\ UNCHANGED <<calc, service, state, failure, payload, cconn, prediction_history,
                 last_prediction, now>>

\* A script run triggered by "Clear History": the history is emptied and
\* st.rerun() starts the script again, which probes the service afresh.
main_clear ==
  /\ state = "Idle"
  /\ prediction_history' = <<>>
  /\ \E o \in ProbeOutcomes :
       /\ probe' = o
       /\ api_status' = check_api_status(o)
  /\ button' = "clear"
  /\ shown' = {}
  /\ posts' = 0
  /\ UNCHANGED <<calc, service, state, failure, payload, cconn, last_prediction, now>>

\* A script run triggered by the predict button, up to the payload; the
\* run takes wall-clock time (time.sleep), so each one reads a later clock.
main_predict(f) ==
  /\ state = "Idle"
  /\ now < MaxClock
  /\ now' = now + 1
  /\ button' = "predict"
  /\ posts' = 0
  /\ \E o \in ProbeOutcomes :
       /\ probe' = o
       /\ api_status' = check_api_status(o)
       /\ IF f.car_name = ""
            THEN /\ shown' = {"Please enter a vehicle model name"}
                 /\ UNCHANGED <<calc, state, payload>>
            ELSE IF ~check_api_status(o)
              THEN /\ shown' = {"API server is not accessible"}
                   /\ UNCHANGED <<calc, state, payload>>
              ELSE /\ shown' = {}
                   /\ payload' = Payload(f)
                   /\ state' = "Submitting"
  /\ UNCHANGED <<calc, service, failure, cconn, prediction_history, last_prediction>>

\* requests.post(f"{API_URL}/predict", json=payload, timeout=15) reaches
\* the service.
requests_post(k) ==
  /\ state = "Submitting"
  /\ posts = 0
  /\ phase = "serving"
  /\ conn[k].pc \in {"free", "done"}
  /\ conn' = [conn EXCEPT ![k] = [FreeConn EXCEPT !.pc = "sent",
                                                  !.method = "POST",
                                                  !.body = payload]]
  /\ cconn' = k
  /\ posts' = posts + 1
  /\ UNCHANGED <<calc, phase, artifact, loads, state, failure, api_status, payload,
                 shown, prediction_history, last_prediction, now, button, probe>>

\* requests.post raises something other than Timeout (connection refused
\* or reset): except Exception.
post_error ==
  /\ state = "Submitting"
  /\ state' = "Failed"
  /\ failure' = "NetworkError"
  /\ shown' = {"Error"}
  /\ posts' = 1
  /\ cconn' = 0
  /\ UNCHANGED <<calc, service, api_status, payload, prediction_history,
                 last_prediction, now, button, probe>>

\* A timeout that sends the request once more instead of giving up.
post_timeout_retry ==
  /\ state = "Submitting"
  /\ cconn # 0
  /\ conn[cconn].pc # "done"
  /\ posts' = posts + 1
  /\ UNCHANGED <<calc, service, state, failure, api_status, payload, cconn, shown,
                 prediction_history, last_prediction, now, button, probe, calc>>

\* except requests.exceptions.Timeout: the service keeps working on the
\* request, the dashboard gives up.
post_timeout ==
  /\ state = "Submitting"
  /\ cconn # 0
  /\ conn[cconn].pc # "done"
  /\ state' = "Failed"
  /\ failure' = "Timeout"
  /\ shown' = {"Request timeout - Please try again"}
  /\ cconn' = 0
  /\ UNCHANGED <<calc, service, api_status, payload, posts, prediction_history,
                 last_prediction, now, button, probe>>

\* A response handler that stores a record whatever the status.
post_response_any ==
  /\ state = "Submitting"
  /\ cconn # 0
  /\ conn[cconn].pc = "done"
  /\ LET rec == prediction_record(payload, conn[cconn].resp.price, now) IN
       /\ last_prediction' = <<rec>>
       /\ prediction_history' = Append(prediction_history, rec)
       /\ IF conn[cconn].resp.status = 200
            THEN state' = "Success" /\ UNCHANGED <<calc, failure, shown>>
            ELSE /\ state' = "Failed"
                 /\ failure' = "ServerError"
                 /\ shown' = {"Prediction failed with status code"}
  /\ cconn' = 0
  /\ UNCHANGED <<calc, service, api_status, payload, posts, now, button, probe>>

\* The response arrives in time: status 200 stores the record and renders
\* the report, any other status shows the failure.
post_response ==
  /\ state = "Submitting"
  /\ cconn # 0
  /\ conn[cconn].pc = "done"
  /\ LET response == conn[cconn].resp IN
       IF response.status = 200
         THEN LET rec == prediction_record(payload, response.price, now) IN
                /\ last_prediction' = <<rec>>
                /\ prediction_history' = Append(prediction_history, rec)
                /\ state' = "Success"
                /\ UNCHANGED <<calc, failure, shown>>
         ELSE /\ state' = "Failed"
              /\ failure' = IF response.status = 422 THEN "ValidationError"
                                                     ELSE "ServerError"
              /\ shown' = {"Prediction failed with status code"}
              /\ UNCHANGED <<calc, prediction_history, last_prediction>>
  /\ cconn' = 0
  /\ UNCHANGED <<calc, service, api_status, payload, posts, now, button, probe>>

\* The script run ends: its locals are gone, the page stays as rendered
\* and the dashboard waits for the next interaction.
main_end ==
  /\ state \in {"Success", "Failed"}
  /\ state' = "Idle"
  /\ failure' = "none"
  /\ payload' = NoBody
  /\ UNCHANGED <<calc, service, api_status, cconn, posts, shown, prediction_history,
                 last_prediction, now, button, probe>>

\* ------------------------------------- streamlit_app.py: derived metrics
NoCalc ==
  [op |-> "none", year |-> 0, present_price |-> 0, kms_driven |-> 0,
   fuel_type |-> "", predicted_price |-> 0, label |-> "", tier |-> "",
   note |-> "", value |-> 0, divisor |-> 0]

\* Inputs of the derived-metric evaluations.
CalcYears == {1990, 2009, 2010, 2020, 2021, 2024, 2025, 2026}

CalcPrices == {0, 50, 1000, 1050, 15000}

CalcPredicted == {-100, 0, 950, 951, 1000, 1049, 1050, 1051, 1200}

CalcKms == {0, 9999, 10000, 27000, 40000, 60000, 500000}

CalcFuels == {"Petrol", "Diesel", "CNG", "Hybrid"}

Abs(x) == IF x < 0 THEN -x ELSE x

\* diff_percent = (price_diff / present_price * 100) if present_price > 0
\* else 0, kept as the exact fraction num / den with den > 0.
diff_percent(predicted_price, present_price) ==
  IF present_price > 0
    THEN [num |-> (predicted_price - present_price) * 100, den |-> present_price]
    ELSE [num |-> 0, den |-> 1]

\* The price assessment with the upper threshold inclusive.
price_assessment_inclusive(predicted_price, present_price) ==
  LET d == diff_percent(predicted_price, present_price) IN
    IF Abs(d.num) < 5 * d.den THEN "aligned"
    ELSE IF d.num >= 5 * d.den THEN "higher"
    ELSE "lower"

\* if abs(diff_percent) < 5: ... elif diff_percent > 5: ... else: ...
price_assessment(predicted_price, present_price) ==
  LET d == diff_percent(predicted_price, present_price) IN
    IF Abs(d.num) < 5 * d.den THEN "aligned"
    ELSE IF d.num > 5 * d.den THEN "higher"
    ELSE "lower"

\* The price variance block of the valuation report.
price_variance ==
  /\ calc.op = "input"
  /\ calc' = [calc EXCEPT
       !.op = "variance",
       !.label = price_assessment(calc.predicted_price, calc.present_price),
       !.value = diff_percent(calc.predicted_price, calc.present_price).num,
       !.divisor = diff_percent(calc.predicted_price, calc.present_price).den]
  /\ UNCHANGED <<service, state, failure, api_status, payload, cconn, posts,
                 shown, prediction_history, last_prediction, now, button, probe>>

\* v * 0.85 ** n for n >= 0, in ten-thousandths of a lakh, rounded down
\* at every factor.
RECURSIVE Decay(_, _)
Decay(v, n) == IF n = 0 THEN v ELSE Decay((v * 85) \div 100, n - 1)

\* v * 0.85 ** (-n) for n >= 0, in ten-thousandths of a lakh, rounded down
\* at every factor.
RECURSIVE Grow(_, _)
Grow(v, n) == IF n = 0 THEN v ELSE Grow((v * 100) \div 85, n - 1)

Max(a, b) == IF a >= b THEN a ELSE b

\* calculate_depreciation with the age clamped at zero.
calculate_depreciation_clamped(year, present_price) ==
  LET age == Max(CurrentYear - year, 0)
      expected_value == Decay(present_price * 100, age)
  IN Max(expected_value, present_price * 10)

\* calculate_depreciation(year, present_price): the price comes in
\* hundredths of a lakh, the result is in ten-thousandths of a lakh.
calculate_depreciation(year, present_price) ==
  LET age == CurrentYear - year
      expected_value == IF age >= 0 THEN Decay(present_price * 100, age)
                                    ELSE Grow(present_price * 100, -age)
  IN Max(expected_value, present_price * 10)

\* expected_depreciation = calculate_depreciation(year, present_price)
expected_depreciation ==
  /\ calc.op = "input"
  /\ calc' = [calc EXCEPT
       !.op = "depreciation",
       !.value = calculate_depreciation(calc.year, calc.present_price)]
  /\ UNCHANGED <<service, state, failure, api_status, payload, cconn, posts,
                 shown, prediction_history, last_prediction, now, button, probe>>

\* A divisor that only avoids zero.
usage_divisor_nonzero(age) == IF age = 0 THEN 1 ELSE age

\* max(age, 1)
usage_divisor(age) == IF age >= 1 THEN age ELSE 1

\* insights.append(fuel_insights.get(fuel_type, fuel_insights["Petrol"]))
fuel_insight(fuel_type) ==
  IF fuel_type = "Diesel" THEN "Diesel Engine"
  ELSE IF fuel_type = "CNG" THEN "CNG Variant"
  ELSE "Petrol Engine"

\* get_market_insights(year, kms_driven, fuel_type): the titles of the age,
\* mileage and fuel insights, and the divisor of the mileage average. The
\* average is rounded down, which changes no comparison with the whole
\* thresholds.
get_market_insights(year, kms_driven, fuel_type) ==
  LET age == CurrentYear - year
      avg_yearly_km == kms_driven \div usage_divisor(age)
  IN [tier |-> IF age < 3 THEN "Low Depreciation"
               ELSE IF age < 7 THEN "Moderate Age"
               ELSE "Higher Depreciation",
      label |-> IF avg_yearly_km < 10000 THEN "Low Usage"
                ELSE IF avg_yearly_km < 15000 THEN "Average Usage"
                ELSE "High Usage",
      note |-> fuel_insight(fuel_type),
      divisor |-> usage_divisor(age),
      value |-> avg_yearly_km]

\* insights = get_market_insights(year, kms_driven, fuel_type)
quick_insights ==
  /\ calc.op = "input"
  /\ LET insights == get_market_insights(calc.year, calc.kms_driven,
                                         calc.fuel_type)
     IN calc' = [calc EXCEPT
          !.op = "insights",
          !.tier = insights.tier,
          !.label = insights.label,
          !.note = insights.note,
          !.divisor = insights.divisor,
          !.value = insights.value]
  /\ UNCHANGED <<service, state, failure, api_status, payload, cconn, posts,
                 shown, prediction_history, last_prediction, now, button, probe>>

\* History tab: diff = (predicted_price - present_price) / present_price
\* * 100, kept as the fraction num / den.
history_variance(pred) ==
  [num |-> (pred.predicted_price - pred.present_price) * 100,
   den |-> pred.present_price]

\* -------------------------------------------------------- specifications
Init ==
  /\ phase = "starting"
  /\ artifact = NoArtifact
  /\ loads = 0
  /\ conn = [k \in Conns |-> FreeConn]
  /\ state = "Idle"
  /\ failure = "none"
  /\ api_status = FALSE
  /\ payload = NoBody
  /\ cconn = 0
  /\ posts = 0
  /\ shown = {}
  /\ prediction_history = <<>>
  /\ last_prediction = <<>>
  /\ now = 0
  /\ button = "none"
  /\ probe = Refused
  /\ calc = NoCalc

\* The service under arbitrary HTTP callers.
NextService ==
  \/ startup_event
  \/ \E k \in Conns : test(k)
  \/ \E k \in Conns : Car_Features_validate(k)
  \/ \E k \in Conns : predict(k)
  \/ \E k \in Conns : \E b \in RawBodies : Post(k, b)
  \/ \E k \in Conns : Get(k)

SpecService == Init /\ [][NextService]_vars

\* One dashboard session in front of the service.
NextClient ==
  \/ startup_event
  \/ \E k \in Conns : Car_Features_validate(k)
  \/ \E k \in Conns : predict(k)
  \/ main_rerun
  \/ main_clear
  \/ \E f \in FormInputs : main_predict(f)
  \/ \E k \in Conns : requests_post(k)
  \/ post_error
  \/ post_timeout
  \/ post_response
  \/ main_end

SpecClient == Init /\ [][NextClient]_vars

\* requests.post returns or raises within its timeout, the script run
\* then ends, and the service works off the requests it has accepted.
FairClient ==
  /\ WF_vars(\E k \in Conns : requests_post(k))
  /\ WF_vars(post_error \/ post_timeout \/ post_response)
  /\ WF_vars(main_end)
  /\ WF_vars(\E k \in Conns : Car_Features_validate(k))
  /\ WF_vars(\E k \in Conns : predict(k))

SpecClientFair == SpecClient /\ FairClient

\* The derived metrics evaluated on given inputs.
InitMetrics ==
  /\ phase = "starting"
  /\ artifact = NoArtifact
  /\ loads = 0
  /\ conn = [k \in Conns |-> FreeConn]
  /\ state = "Idle"
  /\ failure = "none"
  /\ api_status = FALSE
  /\ payload = NoBody
  /\ cconn = 0
  /\ posts = 0
  /\ shown = {}
  /\ prediction_history = <<>>
  /\ last_prediction = <<>>
  /\ now = 0
  /\ button = "none"
  /\ probe = Refused
  /\ \E y \in CalcYears, p \in CalcPrices, q \in CalcPredicted,
        d \in CalcKms, f \in CalcFuels :
       calc = [NoCalc EXCEPT !.op = "input", !.year = y, !.present_price = p,
                             !.predicted_price = q, !.kms_driven = d,
                             !.fuel_type = f]

NextMetrics ==
  \/ price_variance
  \/ expected_depreciation
  \/ quick_insights

SpecMetrics == InitMetrics /\ [][NextMetrics]_vars

\* ================================================================ claims
\* A body whose three enumeration fields are all inside the closed sets.
EnumsClosed(b) ==
  /\ b.Fuel_Type \in {"Petrol", "Diesel", "CNG"}
  /\ b.Seller_Type \in {"Dealer", "Individual"}
  /\ b.Transmission \in {"Manual", "Automatic"}

\* A body that satisfies every rule the data model states for the service.
ValidFeatures(b) == EnumsClosed(b) /\ b.Owner \in 0..3

Posted(k) == conn[k].method = "POST"

Answered(k) == Posted(k) /\ conn[k].pc = "done"

\* C1: a POST /predict whose Fuel_Type, Seller_Type or Transmission is
\* outside its closed set never reaches the handler, never has the scoring
\* function invoked, and is answered with a 422 validation error that names
\* every offending enumeration field.
C1_EnumRejected ==
  \A k \in Conns :
    (Posted(k) /\ ~EnumsClosed(conn[k].body)) =>
      /\ ~conn[k].scored
      /\ conn[k].pc # "handler"
      /\ conn[k].pc = "done" =>
           /\ conn[k].resp.status = 422
           /\ conn[k].resp.kind = "detail"
           /\ (conn[k].body.Fuel_Type \notin {"Petrol", "Diesel", "CNG"})
                => "Fuel_Type" \in conn[k].resp.detail
           /\ (conn[k].body.Seller_Type \notin {"Dealer", "Individual"})
                => "Seller_Type" \in conn[k].resp.detail
           /\ (conn[k].body.Transmission \notin {"Manual", "Automatic"})
                => "Transmission" \in conn[k].resp.detail

C1_Witness ==
  \E k \in Conns :
    /\ Answered(k)
    /\ conn[k].body.Fuel_Type = "Hybrid"
    /\ conn[k].resp.status = 422
    /\ ~conn[k].scored

\* C2: a POST /predict whose Owner is outside [0, 3] is answered with a 422
\* validation error naming Owner and is never scored; with Owner in
\* {0, 1, 2, 3} the error list never names Owner, and an otherwise valid
\* request is not answered 422.
C2_OwnerRange ==
  \A k \in Conns :
    Posted(k) =>
      /\ (conn[k].body.Owner \notin 0..3) =>
           /\ ~conn[k].scored
           /\ conn[k].pc # "handler"
           /\ conn[k].pc = "done" =>
                (conn[k].resp.status = 422 /\ "Owner" \in conn[k].resp.detail)
      /\ (conn[k].body.Owner \in 0..3 /\ conn[k].pc = "done") =>
           /\ "Owner" \notin conn[k].resp.detail
           /\ EnumsClosed(conn[k].body) => conn[k].resp.status # 422

C2_Witness ==
  \E k, j \in Conns :
    /\ Answered(k) /\ conn[k].body.Owner = 4 /\ conn[k].resp.status = 422
    /\ Answered(j) /\ conn[j].body.Owner = 3 /\ conn[j].resp.status = 200

C4_LoadedOnce ==
  /\ [](loads <= 1)
  /\ [](phase # "starting" => loads = 1)
  /\ []((\E k \in Conns : conn[k].pc # "free") => (phase = "serving" /\ loads = 1))
  /\ [][phase # "starting" => (artifact' = artifact /\ loads' = loads)]_vars

C4_Witness ==
  \E k, j \in Conns :
    /\ loads = 1
    /\ Answered(k) /\ conn[k].resp.status = 200 /\ conn[k].scored
    /\ conn[j].method = "GET" /\ conn[j].pc = "done"

ServedAlone(a, b) ==
  IF ~ValidFeatures(b)
    THEN [status |-> 422, kind |-> "detail"]
    ELSE IF a.loaded
      THEN [status |-> 200, kind |-> "prediction"]
      ELSE [status |-> 500, kind |-> "error"]

LifecycleMoves ==
  {<<"Idle", "Idle">>, <<"Idle", "Submitting">>,
   <<"Submitting", "Submitting">>, <<"Submitting", "Success">>,
   <<"Submitting", "Failed">>, <<"Success", "Success">>,
   <<"Failed", "Failed">>, <<"Success", "Idle">>, <<"Failed", "Idle">>}

\* C7: the dashboard moves Idle -> Submitting -> {Success, Failed} -> Idle;
\* a submission issues at most one POST /predict, every Failed state is one
\* of Timeout, ServerError, ValidationError, NetworkError and has an error
\* on screen, and every submission eventually returns to Idle.
C7_Lifecycle ==
  /\ [](posts <= 1)
  /\ [][(<<state, state'>> \in LifecycleMoves)]_vars
  /\ [](state = "Failed" =>
          /\ failure \in {"Timeout", "ServerError", "ValidationError",
                          "NetworkError"}
          /\ shown # {})
  /\ (state = "Submitting") ~> (state = "Idle")

C7_Witness ==
  /\ state = "Failed"
  /\ failure = "Timeout"
  /\ posts = 1
  /\ shown # {}

\* C8: a step into Success appends exactly one record, built from the 200
\* answer, at the end of the history; Clear History empties the history;
\* every other step (timeout, non-200 answer, network error, rejected
\* submission) leaves the history unchanged.
C8_History ==
  [][IF state = "Submitting" /\ state' = "Success"
       THEN /\ cconn # 0
            /\ conn[cconn].resp.status = 200
            /\ Len(prediction_history') = Len(prediction_history) + 1
            /\ SubSeq(prediction_history', 1, Len(prediction_history))
                 = prediction_history
            /\ prediction_history'[Len(prediction_history')].predicted_price
                 = conn[cconn].resp.price
       ELSE IF button' = "clear"
         THEN prediction_history' = <<>>
         ELSE prediction_history' = prediction_history]_vars

C8_Witness ==
  /\ Len(prediction_history) = 1
  /\ state = "Failed"
  /\ failure = "Timeout"
  /\ payload.Car_Name # prediction_history[1].car_name
  /\ last_prediction = <<prediction_history[1]>>

RequestFieldKeys ==
  {"car_name", "year", "present_price", "kms_driven", "fuel_type",
   "seller_type", "transmission", "owner"}

\* C9 as stated: every record of the history holds all eight request
\* fields, the predicted price and a timestamp.
C9_AllRequestFields ==
  \A i \in 1..Len(prediction_history) :
    (RequestFieldKeys \cup {"predicted_price", "timestamp"})
      \subseteq DOMAIN prediction_history[i]

\* C9 (amended): every record appended to the history holds exactly the
\* name, year, present price, kilometres, fuel type and transmission of the
\* request the service received, the price the service returned and the
\* capture time; it holds neither the seller type nor the owner.
C9_RecordFields ==
  /\ [](\A i \in 1..Len(prediction_history) :
          DOMAIN prediction_history[i] =
            {"car_name", "year", "predicted_price", "present_price",
             "kms_driven", "fuel_type", "transmission", "timestamp"})
  /\ [][Len(prediction_history') > Len(prediction_history) =>
          LET rec == prediction_history'[Len(prediction_history')]
              sent == conn[cconn].body
          IN /\ rec.car_name = sent.Car_Name
             /\ rec.year = sent.Year
             /\ rec.present_price = sent.Present_Price
             /\ rec.kms_driven = sent.Kms_Driven
             /\ rec.fuel_type = sent.Fuel_Type
             /\ rec.transmission = sent.Transmission
             /\ rec.predicted_price = conn[cconn].resp.price
             /\ rec.timestamp = now]_vars

C9_Witness ==
  /\ Len(prediction_history) = 2
  /\ prediction_history[1].fuel_type # prediction_history[2].fuel_type
  /\ prediction_history[2].timestamp > prediction_history[1].timestamp

\* C10: a POST /predict is issued only in a run whose GET / probe returned
\* 200 and whose vehicle name is non-empty; when the predict button is
\* pressed and the probe did not return 200, nothing is posted and an error
\* is on screen.
C10_HealthGate ==
  /\ [](posts > 0 => (probe = 200 /\ api_status /\ button = "predict"))
  /\ [](state # "Idle" =>
          (probe = 200 /\ api_status /\ payload.Car_Name # ""))
  /\ []((button = "predict" /\ probe # 200) =>
          (state = "Idle" /\ posts = 0 /\ shown # {}))
  /\ [][(\E k \in Conns : conn'[k].pc = "sent" /\ conn[k].pc # "sent") =>
          (probe = 200 /\ button = "predict" /\ payload.Car_Name # "")]_vars

C10_Witness ==
  /\ button = "predict"
  /\ probe = 404
  /\ shown = {"API server is not accessible"}
  /\ posts = 0
  /\ \A k \in Conns : conn[k].pc = "free"

\* C11: every request the scoring function is invoked for has a
\* non-negative Kms_Driven: a negative odometer reading never reaches
\* scoring.
C11_NonNegativeKms ==
  \A k \in Conns :
    (Posted(k) /\ (conn[k].scored \/ conn[k].pc = "handler")) =>
      conn[k].body.Kms_Driven >= 0

\* C12: the variance is (predicted - present) / present * 100 when
\* present > 0 and 0 otherwise; the label is "aligned" iff it lies strictly
\* between -5 and 5, "higher" iff it is above 5, and "lower" in every
\* other case, among them exactly 5 and -5 and below.
C12_Variance ==
  (calc.op = "variance") =>
    LET q == calc.predicted_price
        p == calc.present_price
    IN /\ calc.divisor > 0
       /\ IF p > 0
            THEN calc.value = (q - p) * 100 /\ calc.divisor = p
            ELSE calc.value = 0
       /\ calc.label \in {"aligned", "higher", "lower"}
       /\ calc.label = "aligned" <=>
            (p <= 0 \/ (95 * p < 100 * q /\ 100 * q < 105 * p))
       /\ calc.label = "higher" <=> (p > 0 /\ 100 * q > 105 * p)
       /\ calc.label = "lower" <=>
            (p > 0 /\ (100 * q <= 95 * p \/ 100 * q = 105 * p))

C12_Witness ==
  /\ calc.op = "variance"
  /\ calc.present_price = 1000
  /\ calc.predicted_price = 1050
  /\ calc.label = "lower"

\* C13: for a positive present price the depreciation estimate is
\* max(present * 0.85^age, present * 0.10) with age = current year - year,
\* unclamped: never below 10% of the present price, equal to it at age 0,
\* above it for a negative age, below it for a positive age, 85% of it at
\* age 1, above the floor up to age 14 and at the floor from age 15 on;
\* 10.5 lakhs of 2020 give 5.48 lakhs in 2024.
C13_Depreciation ==
  (calc.op = "depreciation" /\ calc.present_price > 0) =>
    LET age == 2024 - calc.year
        whole == calc.present_price * 100
        floor == calc.present_price * 10
    IN /\ calc.value >= floor
       /\ age = 0 => calc.value = whole
       /\ age < 0 => calc.value > whole
       /\ age > 0 => calc.value < whole
       /\ age = 1 => calc.value = calc.present_price * 85
       /\ (age >= 1 /\ age <= 14) => calc.value > floor
       /\ age >= 15 => calc.value = floor
       /\ (calc.year = 2020 /\ calc.present_price = 1050) =>
            calc.value \div 100 = 548

C13_Witness ==
  /\ calc.op = "depreciation"
  /\ calc.year = 2025
  /\ calc.present_price = 1050
  /\ calc.value > 105000

\* C14: the yearly average is kms_driven divided by max(age, 1), a divisor
\* that is never zero or negative; it is labelled "Low Usage" iff below
\* 10000, "Average Usage" iff from 10000 to below 15000 and "High Usage"
\* iff 15000 or more, while the age tier uses the unfloored age: below 3
\* "Low Depreciation", 3 to below 7 "Moderate Age", 7 or more "Higher
\* Depreciation"; 27000 km of a 2020 vehicle in 2024 are 6750 a year.
C14_Usage ==
  (calc.op = "insights") =>
    LET age == 2024 - calc.year
        d == calc.divisor
        km == calc.kms_driven
    IN /\ d >= 1
       /\ d = (IF age > 1 THEN age ELSE 1)
       /\ calc.value * d <= km /\ km < (calc.value + 1) * d
       /\ calc.label = "Low Usage" <=> km < 10000 * d
       /\ calc.label = "Average Usage" <=> (10000 * d <= km /\ km < 15000 * d)
       /\ calc.label = "High Usage" <=> km >= 15000 * d
       /\ calc.tier = "Low Depreciation" <=> age < 3
       /\ calc.tier = "Moderate Age" <=> (3 <= age /\ age < 7)
       /\ calc.tier = "Higher Depreciation" <=> age >= 7
       /\ (calc.year = 2020 /\ km = 27000) =>
            (calc.value = 6750 /\ calc.label = "Low Usage")

C14_Witness ==
  /\ calc.op = "insights"
  /\ calc.year = 2026
  /\ calc.divisor = 1
  /\ calc.kms_driven = 10000
  /\ calc.label = "Average Usage"
  /\ calc.tier = "Low Depreciation"

\* The ranges the dashboard's widgets allow, as values of a payload.
InWidgetRanges(b) ==
  /\ b.Car_Name # ""
  /\ b.Year >= 1990 /\ b.Year <= 2024
  /\ b.Present_Price >= 50 /\ b.Present_Price <= 15000
  /\ b.Kms_Driven >= 0 /\ b.Kms_Driven <= 500000
  /\ b.Owner \in {0, 1, 2, 3}
  /\ EnumsClosed(b)

\* C15: every payload the dashboard submits lies inside the widget ranges
\* and the closed sets and has a name, the service never rejects it with
\* 422, and no submission ends in the ValidationError outcome.
C15_ClientPayloadValid ==
  /\ state # "Idle" => InWidgetRanges(payload)
  /\ failure # "ValidationError"
  /\ \A k \in Conns :
       Posted(k) =>
         /\ InWidgetRanges(conn[k].body)
         /\ conn[k].resp.status # 422

C15_Witness ==
  /\ state = "Success"
  /\ artifact.loaded
  /\ payload.Owner = 3
  /\ payload.Year = 2024
  /\ payload.Present_Price = 50
  /\ payload.Kms_Driven = 0

\* C16: every record of the session history has a present price of at
\* least 0.5 lakhs and a numeric predicted price, so the variance of the
\* History tab never divides by zero.
C16_HistoryPricePositive ==
  \A i \in 1..Len(prediction_history) :
    /\ prediction_history[i].present_price >= 50
    /\ prediction_history[i].predicted_price \in Int
    /\ history_variance(prediction_history[i]).den # 0

C16_Witness ==
  /\ Len(prediction_history) = 2
  /\ prediction_history[1].present_price = 50
  /\ prediction_history[2].present_price = 1050
  /\ button = "predict"

====
